---- MODULE Spec2Model ----
(***************************************************************************)
(* A model of Theo-AI: the Telegram bot (src/telegram/bot.py) with its two *)
(* process-wide stores, chat_contexts and chat_settings, the backend       *)
(* request handler (src/api/main.py), the Formation model adapter          *)
(* (src/models/formation.py) and the calendar integration                  *)
(* (src/integrations/googleCalendar.py).  Each part has its own            *)
(* specification; the variables of the other parts stay at rest in it.     *)
(*                                                                         *)
(* Strings that the code takes apart (callback data, provider and model    *)
(* ids) are sequences of tokens, ":" being a token of its own, so that     *)
(* startswith and split are computed and not looked up.  The text of the   *)
(* n-th inbound message is represented by n: texts are pairwise distinct.  *)
(* Calls to the Telegram API (reply_text, answer, edit_text, delete) are   *)
(* taken to succeed.                                                       *)
(***************************************************************************)
EXTENDS Integers, Sequences, FiniteSets, TLC

VARIABLES
    chat_contexts,      \* bot.py:56  chat id -> list of context entries
    chat_settings,      \* bot.py:59  chat id -> {model_provider, model_id}
    handlers,           \* the process_message coroutines, one record per slot
    concurrent_updates, \* whether the Application runs handlers concurrently
    shown,              \* what a handler last read from the settings store
    nmsg,               \* text messages received so far (also the message id)
    ncb,                \* callback queries received so far
    provider_keys,      \* config.py:96-97  the providers whose API key is configured
    api_log,            \* the backend: the POST /chat requests handled, in order
    environ,            \* config.py:95-98  the required environment variables
    bot_state,          \* where the bot process is: not started, failed, exited, polling
    backend_state,      \* where the backend process is: not started, failed, serving
    appended,           \* history: every entry ever appended, per chat
    callbacks,          \* history: the callback queries handled, in order
    lines,              \* formation.py:343  what response.iter_lines() delivers
    line_no,            \* the lines the streaming loop has taken so far
    yielded,            \* the chunks the streaming generator has yielded, in order
    stream_open,        \* whether the streaming loop is still running
    tool_calls_data,    \* formation.py:414  the streamed tool-call chunks
    chunk_no,           \* the chunks parse_tool_calls has taken so far
    tool_calls,         \* formation.py:424  the list being built: one reference per index
    entries,            \* the dict objects that the references of tool_calls point to
    model,              \* formation.py:58-71  the fields of the Formation instance
    invoke_messages,    \* formation.py:247  the messages handed to invoke
    request_data,       \* formation.py:260  the JSON body of the request, once built
    invoke_result,      \* formation.py:271-280  how invoke ended: a value or an exception
    response,           \* formation.py:459  the provider's response handed to the parser
    model_response,     \* formation.py:469  the ModelResponse, once parsed
    response_arrived,   \* history: the response as the provider sent it
    calendar_env,       \* googleCalendar.py: the files, the OAuth flow, the Calendar API
    calendar_result,    \* googleCalendar.py:121  what create_calendar_event returned
    calendar_raised,    \* whether an exception left create_calendar_event
    insert_calls,       \* googleCalendar.py:169  the events().insert() calls issued
    calendar_calls      \* the calls of create_calendar_event made so far

streamVars == <<lines, line_no, yielded, stream_open>>

toolVars == <<tool_calls_data, chunk_no, tool_calls, entries>>

requestVars == <<model, invoke_messages, request_data, invoke_result>>

parseVars == <<response, model_response, response_arrived>>

adapterVars == <<streamVars, toolVars, requestVars, parseVars>>

calendarVars == <<calendar_env, calendar_result, calendar_raised, insert_calls,
                  calendar_calls>>

startupVars == <<environ, bot_state, backend_state>>

vars == <<chat_contexts, chat_settings, handlers, concurrent_updates, shown,
          nmsg, ncb, provider_keys, api_log, appended, callbacks, adapterVars,
          calendarVars, startupVars>>

botVars == <<chat_contexts, chat_settings, handlers, concurrent_updates, shown,
             nmsg, ncb, appended, callbacks, startupVars>>

----------------------------------------------------------------------------
(* Bounds of the model *)

MaxWork == 6        \* events of a run: a text message counts 1 ...
CallbackCost == 2   \* ... and a callback query counts this much
MaxHandlers == 2    \* process_message coroutines alive at a time
MaxRequests == 2    \* POST /chat requests the backend handles in a run
MaxLines == 4       \* lines of a streamed response
MaxChunks == 3      \* tool-call chunks handed to parse_tool_calls
MaxToolCalls == 2   \* tool calls of one provider response
MaxCalendarCalls == 2  \* calls of create_calendar_event in a run

(* Program constants *)

MAX_CONTEXT_LENGTH == 10

DEFAULT_MODEL_PROVIDER == <<"formation">>
DEFAULT_MODEL_ID == <<"best-quality">>

HTTP_ERROR_REPLY == "Sorry, I encountered an error processing your request."
REQUEST_ERROR_REPLY == "Sorry, I couldn't connect to the AI service."
UNEXPECTED_ERROR_REPLY == "An unexpected error occurred."

HANDLED_CHAT_TYPES == {"group", "supergroup", "private"}

API_SECRET_KEY == "secret"

----------------------------------------------------------------------------
(* Inputs *)

Chats == {"c1", "c2"}
ChatTypes == {"group", "private", "channel"}
Users == {"alice"}
Handlers == 1..MaxHandlers

CallbackData ==
    { <<"provider", ":", "openai">>,
      <<"provider", ":", "formation">>,
      <<"model", ":", "gpt-4o">>,
      <<"model", ":", "best-quality">>,
      <<"page", ":", "2">> }

NoBody == [valid |-> FALSE, has_response |-> FALSE, response |-> ""]

\* A 2xx body: not JSON, JSON without "response", with an empty one, with a text.
Bodies ==
    { NoBody,
      [valid |-> TRUE, has_response |-> FALSE, response |-> ""],
      [valid |-> TRUE, has_response |-> TRUE, response |-> ""],
      [valid |-> TRUE, has_response |-> TRUE, response |-> "pong"] }

\* What client.post comes back with: a network failure or a response.
Outcomes ==
    { [kind |-> "network_error", status |-> 0, body |-> NoBody] }
    \cup { [kind |-> "response", status |-> 200, body |-> b] : b \in Bodies }
    \cup { [kind |-> "response", status |-> s, body |-> NoBody] : s \in {404, 500} }

NoOutcome == [kind |-> "none", status |-> 0, body |-> NoBody]

----------------------------------------------------------------------------
(* Helpers *)

LastN(s, n) == SubSeq(s, Len(s) - n + 1, Len(s))

\* Mutant of SetKey: one value for every key, a store that is not keyed by chat.
SetKeyShared(d, key, value) ==
    [k \in DOMAIN d \cup {key} |-> value]

\* dict[key] = value
SetKey(d, key, value) ==
    [k \in DOMAIN d \cup {key} |-> IF k = key THEN value ELSE d[k]]

\* Mutant of Trim: keeps the oldest entries, buffer[:MAX_CONTEXT_LENGTH].
TrimKeepOldest(buffer) ==
    IF Len(buffer) > MAX_CONTEXT_LENGTH
    THEN SubSeq(buffer, 1, MAX_CONTEXT_LENGTH)
    ELSE buffer

\* chat_contexts[chat_id] = chat_contexts[chat_id][-MAX_CONTEXT_LENGTH:]
Trim(buffer) ==
    IF Len(buffer) > MAX_CONTEXT_LENGTH
    THEN LastN(buffer, MAX_CONTEXT_LENGTH)
    ELSE buffer

\* Mutant of GetSettings: the stored pair is never looked at.
GetSettingsDefaultOnly(store, chat) ==
    [provider |-> DEFAULT_MODEL_PROVIDER, model_id |-> DEFAULT_MODEL_ID]

\* settings = chat_settings.get(chat_id, {}); settings.get(..., DEFAULT_...)
GetSettings(store, chat) ==
    IF chat \in DOMAIN store
    THEN [provider |-> store[chat].model_provider, model_id |-> store[chat].model_id]
    ELSE [provider |-> DEFAULT_MODEL_PROVIDER, model_id |-> DEFAULT_MODEL_ID]

\* callback_data.startswith(prefix + ":")
StartsWith(data, prefix) ==
    /\ Len(data) >= 2
    /\ data[1] = prefix
    /\ data[2] = ":"

\* Mutant of AfterColon: callback_data.split(":", 1)[0]
BeforeColon(data) ==
    LET i == CHOOSE j \in 1..Len(data) :
                 /\ data[j] = ":"
                 /\ \A k \in 1..(j - 1) : data[k] # ":"
    IN  SubSeq(data, 1, i - 1)

\* callback_data.split(":", 1)[1]
AfterColon(data) ==
    LET i == CHOOSE j \in 1..Len(data) :
                 /\ data[j] = ":"
                 /\ \A k \in 1..(j - 1) : data[k] # ":"
    IN  SubSeq(data, i + 1, Len(data))

\* Mutant of IsSuccess: only 4xx counts as an error status.
IsSuccessBelow500(status) == ~(status >= 400 /\ status <= 499)

\* response.raise_for_status()
IsSuccess(status) == status >= 200 /\ status <= 299

----------------------------------------------------------------------------
(* process_message, up to the await of client.post *)

NoHandler ==
    [pc |-> "idle", chat |-> "none", msg |-> 0, payload |-> <<>>, headers |-> {},
     posts |-> 0,
     replies |-> <<>>, escaped |-> FALSE, outcome |-> NoOutcome, steps |-> <<>>]

\* bot.py:268-272: the entry appended for an inbound text message
UserEntry(user, msg) == [role |-> "user", name |-> user, content |-> msg]

\* bot.py:335-339: the entry appended for the backend's reply
AssistantEntry(text) == [role |-> "assistant", name |-> "theo-ai", content |-> text]

\* Mutant of AppendUserMessage: the buffer is trimmed before the append.
AppendUserMessageTrimFirst(contexts, chat, entry) ==
    LET current == IF chat \in DOMAIN contexts THEN contexts[chat] ELSE <<>>
    IN  SetKey(contexts, chat, Append(Trim(current), entry))

\* bot.py:263-276: create the list if needed, append, trim
AppendUserMessage(contexts, chat, entry) ==
    LET current == IF chat \in DOMAIN contexts THEN contexts[chat] ELSE <<>>
    IN  SetKey(contexts, chat, Trim(Append(current, entry)))

\* bot.py:296-305: the JSON body of the POST
BuildPayload(contexts, store, chat) ==
    [chat_id |-> chat,
     messages |-> contexts[chat],
     system_prompt |-> "DEFAULT_SYSTEM_PROMPT",
     model_config |-> GetSettings(store, chat)]

\* bot.py:283-316: the headers of the POST, with the provider's key when there is one
BuildHeaders(keys, provider) ==
    {"Content-Type", "X-API-Key"}
    \cup (IF (provider = <<"formation">> /\ "formation" \in keys)
              \/ (provider = <<"openai">> /\ "openai" \in keys)
           THEN {"X-User-API-Key"}
           ELSE {})

\* bot.py:248-254: the two early returns
IsHandled(chat_type, has_text) ==
    /\ chat_type \in HANDLED_CHAT_TYPES
    /\ has_text

\* Mutant of StartHandler: the payload is built and sent before the user
\* message is appended to the buffer.
StartHandlerPostFirst(contexts, store, keys, slot, chat, chat_type, has_text, user, msg) ==
    IF ~IsHandled(chat_type, has_text)
    THEN [contexts |-> contexts, handler |-> slot]
    ELSE LET before == IF chat \in DOMAIN contexts THEN contexts[chat] ELSE <<>>
             after == AppendUserMessage(contexts, chat, UserEntry(user, msg))
         IN  [contexts |-> after,
              handler |-> [NoHandler EXCEPT
                              !.pc = "await_post",
                              !.chat = chat,
                              !.msg = msg,
                              !.payload = <<[BuildPayload(after, store, chat)
                                               EXCEPT !.messages = before]>>,
                              !.headers =
                                  BuildHeaders(keys, GetSettings(store, chat).provider),
                              !.posts = 1,
                              !.steps = <<"post", "append_user">>]]

\* bot.py:243-326: the handler from its start to the await of the POST
StartHandler(contexts, store, keys, slot, chat, chat_type, has_text, user, msg) ==
    IF ~IsHandled(chat_type, has_text)
    THEN [contexts |-> contexts, handler |-> slot]
    ELSE LET after == AppendUserMessage(contexts, chat, UserEntry(user, msg))
         IN  [contexts |-> after,
              handler |-> [NoHandler EXCEPT
                              !.pc = "await_post",
                              !.chat = chat,
                              !.msg = msg,
                              !.payload = <<BuildPayload(after, store, chat)>>,
                              !.headers =
                                  BuildHeaders(keys, GetSettings(store, chat).provider),
                              !.posts = 1,
                              !.steps = <<"append_user", "post">>]]

\* Mutant of HandleResponse: a failed request is sent once more.
HandleResponseRetry(contexts, h, outcome) ==
    IF (outcome.kind = "network_error" \/ ~IsSuccess(outcome.status)) /\ h.posts < 2
    THEN [contexts |-> contexts,
          handler |-> [h EXCEPT !.posts = @ + 1, !.steps = Append(@, "post")]]
    ELSE [contexts |-> contexts,
          handler |-> [h EXCEPT !.pc = "done", !.outcome = outcome]]

\* Mutant of HandleResponse: a failed request takes the user message back
\* out of the buffer.
HandleResponseRollback(contexts, h, outcome) ==
    LET done == [h EXCEPT !.pc = "done", !.outcome = outcome]
        buffer == contexts[h.chat]
        failed(text) ==
            [contexts |-> SetKey(contexts, h.chat, SubSeq(buffer, 1, Len(buffer) - 1)),
             handler |-> [done EXCEPT !.replies = Append(@, text),
                                      !.steps = Append(@, "reply")]]
    IN  IF outcome.kind = "network_error"
        THEN failed(REQUEST_ERROR_REPLY)
        ELSE IF ~IsSuccess(outcome.status)
        THEN failed(HTTP_ERROR_REPLY)
        ELSE IF ~outcome.body.valid
        THEN failed(UNEXPECTED_ERROR_REPLY)
        ELSE IF outcome.body.has_response /\ outcome.body.response # ""
        THEN [contexts |->
                  SetKey(contexts, h.chat,
                         Append(buffer, AssistantEntry(outcome.body.response))),
              handler |->
                  [done EXCEPT !.replies = Append(@, outcome.body.response),
                               !.steps = @ \o <<"append_reply", "reply">>]]
        ELSE [contexts |-> contexts, handler |-> done]

\* Mutant of HandleResponse: an empty response is answered with a fallback text.
HandleResponseFallback(contexts, h, outcome) ==
    LET done == [h EXCEPT !.pc = "done", !.outcome = outcome]
        failed(text) ==
            [contexts |-> contexts,
             handler |-> [done EXCEPT !.replies = Append(@, text),
                                      !.steps = Append(@, "reply")]]
    IN  IF outcome.kind = "network_error"
        THEN failed(REQUEST_ERROR_REPLY)
        ELSE IF ~IsSuccess(outcome.status)
        THEN failed(HTTP_ERROR_REPLY)
        ELSE IF ~outcome.body.valid
        THEN failed(UNEXPECTED_ERROR_REPLY)
        ELSE IF outcome.body.has_response /\ outcome.body.response # ""
        THEN [contexts |->
                  SetKey(contexts, h.chat,
                         Append(contexts[h.chat], AssistantEntry(outcome.body.response))),
              handler |->
                  [done EXCEPT !.replies = Append(@, outcome.body.response),
                               !.steps = @ \o <<"append_reply", "reply">>]]
        ELSE failed("I couldn't process that.")

\* bot.py:327-354: the handler from the return of client.post to its end
HandleResponse(contexts, h, outcome) ==
    LET done == [h EXCEPT !.pc = "done", !.outcome = outcome]
        failed(text) ==
            [contexts |-> contexts,
             handler |-> [done EXCEPT !.replies = Append(@, text),
                                      !.steps = Append(@, "reply")]]
    IN  IF outcome.kind = "network_error"
        THEN failed(REQUEST_ERROR_REPLY)                     \* httpx.RequestError
        ELSE IF ~IsSuccess(outcome.status)
        THEN failed(HTTP_ERROR_REPLY)                        \* httpx.HTTPStatusError
        ELSE IF ~outcome.body.valid
        THEN failed(UNEXPECTED_ERROR_REPLY)                  \* response.json() raises
        ELSE IF outcome.body.has_response /\ outcome.body.response # ""
        THEN [contexts |->
                  SetKey(contexts, h.chat,
                         Append(contexts[h.chat], AssistantEntry(outcome.body.response))),
              handler |->
                  [done EXCEPT !.replies = Append(@, outcome.body.response),
                               !.steps = @ \o <<"append_reply", "reply">>]]
        ELSE [contexts |-> contexts, handler |-> done]       \* empty response: logged

----------------------------------------------------------------------------
(* button_callback *)

\* main.py:150-177 list_models: the models each provider is listed with
ModelCatalog(provider) ==
    IF provider = <<"formation">>
    THEN {<<"best-quality">>, <<"best-reasoning">>, <<"best-speed">>, <<"best-rag">>}
    ELSE IF provider = <<"openai">>
    THEN {<<"gpt-4o">>, <<"gpt-4-turbo">>}
    ELSE {}

\* Mutant of ApplyCallback: a provider selection whose pair is not in the
\* catalog takes a model of the new provider.
ApplyCallbackValidated(store, chat, data) ==
    LET initialised ==
            IF chat \in DOMAIN store
            THEN store
            ELSE SetKey(store, chat, [model_provider |-> DEFAULT_MODEL_PROVIDER,
                                      model_id |-> DEFAULT_MODEL_ID])
        provider == AfterColon(data)
    IN  IF StartsWith(data, "provider")
        THEN [initialised EXCEPT
                 ![chat].model_provider = provider,
                 ![chat].model_id =
                     IF @ \in ModelCatalog(provider) \/ ModelCatalog(provider) = {}
                     THEN @
                     ELSE CHOOSE m \in ModelCatalog(provider) : TRUE]
        ELSE IF StartsWith(data, "model")
        THEN [initialised EXCEPT ![chat].model_id = AfterColon(data)]
        ELSE initialised

\* Mutant of ApplyCallback: the defaults are stored without the membership test.
ApplyCallbackReset(store, chat, data) ==
    LET initialised ==
            SetKey(store, chat, [model_provider |-> DEFAULT_MODEL_PROVIDER,
                                 model_id |-> DEFAULT_MODEL_ID])
    IN  IF StartsWith(data, "provider")
        THEN [initialised EXCEPT ![chat].model_provider = AfterColon(data)]
        ELSE IF StartsWith(data, "model")
        THEN [initialised EXCEPT ![chat].model_id = AfterColon(data)]
        ELSE initialised

\* bot.py:214-235: the settings store after a callback query
ApplyCallback(store, chat, data) ==
    LET initialised ==
            IF chat \in DOMAIN store
            THEN store
            ELSE SetKey(store, chat, [model_provider |-> DEFAULT_MODEL_PROVIDER,
                                      model_id |-> DEFAULT_MODEL_ID])
    IN  IF StartsWith(data, "provider")
        THEN [initialised EXCEPT ![chat].model_provider = AfterColon(data)]
        ELSE IF StartsWith(data, "model")
        THEN [initialised EXCEPT ![chat].model_id = AfterColon(data)]
        ELSE initialised

----------------------------------------------------------------------------
(* Dispatch *)

Awaiting == {h \in Handlers : handlers[h].pc = "await_post"}
FreeSlots == Handlers \ Awaiting

\* Application.builder().build() leaves concurrent_updates off: an update is
\* handled only after the handler of the previous one has returned.
\* bot.py:383: handlers run once run_polling() has been reached.
Polling == bot_state = "polling"

CanDispatch == Polling /\ (concurrent_updates \/ Awaiting = {})

LowestFree == CHOOSE h \in FreeSlots : \A g \in FreeSlots : h <= g

\* The runs explored: long ones of text messages alone, shorter ones the
\* more callback queries they hold.
WithinBudget(messages, queries) ==
    messages + CallbackCost * queries <= MaxWork

----------------------------------------------------------------------------
(* Actions *)

\* What a handler read from the settings store, and which handler it was.
Reading(by, chat, settings) ==
    [by |-> by, chat |-> chat,
     provider |-> settings.provider, model_id |-> settings.model_id]

\* An environment variable is << >> when it is not set and << value >> when
\* it is; the value may be the empty text.
ConfiguredEnviron ==
    [API_SECRET_KEY |-> <<"secret">>, TELEGRAM_BOT_TOKEN |-> <<"token">>]

Environs ==
    [API_SECRET_KEY : {<<>>, <<"">>, <<"secret">>},
     TELEGRAM_BOT_TOKEN : {<<>>, <<"">>, <<"token">>}]

\* config.py:31-48 Config.get_required: whether it returns (or raises ValueError)
GetRequired(env, key) == env[key] # <<>>

\* bot.py:359, 362: `not value`, true of None and of the empty text
IsFalsy(value) == value = <<>> \/ value = <<"">>

\* Mutant of StartBot: the variables are read without being required and
\* main() does not look at them.
StartBotUnchecked(env) == "polling"

\* python -m telegram.bot: the import of utils.config (config.py:95, 98; bot.py:24)
\* and then main() (bot.py:356-383).  The result is where the process ends up.
StartBot(env) ==
    IF ~GetRequired(env, "API_SECRET_KEY") \/ ~GetRequired(env, "TELEGRAM_BOT_TOKEN")
    THEN "import_failed"                              \* ValueError
    ELSE IF IsFalsy(env.TELEGRAM_BOT_TOKEN) \/ IsFalsy(env.API_SECRET_KEY)
    THEN "exited"                                     \* bot.py:359-364 return
    ELSE "polling"

\* The two stores are empty and no handler runs.
InitStores ==
    /\ chat_contexts = <<>>
    /\ chat_settings = <<>>
    /\ handlers = [h \in Handlers |-> NoHandler]
    /\ shown = <<>>
    /\ nmsg = 0
    /\ ncb = 0
    /\ appended = [c \in Chats |-> <<>>]
    /\ callbacks = <<>>

\* The bot has started with its configuration and is polling.
Started ==
    /\ environ = ConfiguredEnviron
    /\ bot_state = "polling"

InitBot ==
    /\ chat_contexts = <<>>
    /\ chat_settings = <<>>
    /\ handlers = [h \in Handlers |-> NoHandler]
    /\ concurrent_updates = FALSE
    /\ Started
    /\ shown = <<>>
    /\ nmsg = 0
    /\ ncb = 0
    /\ appended = [c \in Chats |-> <<>>]
    /\ callbacks = <<>>

\* No streamed response is being read.
StreamIdle ==
    /\ lines = <<>>
    /\ line_no = 0
    /\ yielded = <<>>
    /\ stream_open = FALSE

\* parse_tool_calls is not running.
ToolCallsIdle ==
    /\ tool_calls_data = <<>>
    /\ chunk_no = 0
    /\ tool_calls = <<>>
    /\ entries = <<>>

\* No request is being built.
RequestIdle ==
    /\ model = <<>>
    /\ invoke_messages = <<>>
    /\ request_data = <<>>
    /\ invoke_result = <<>>

\* No response is being parsed.
ParseIdle ==
    /\ response = <<>>
    /\ model_response = <<>>
    /\ response_arrived = <<>>

AdapterIdle == StreamIdle /\ ToolCallsIdle /\ RequestIdle /\ ParseIdle

\* create_calendar_event has not been called.
CalendarIdle ==
    /\ calendar_env = <<>>
    /\ calendar_result = <<>>
    /\ calendar_raised = FALSE
    /\ insert_calls = 0
    /\ calendar_calls = 0

BackendIdle ==
    /\ provider_keys = {"formation", "openai"}
    /\ api_log = <<>>
    /\ backend_state = "not_started"

Init ==
    /\ InitBot
    /\ BackendIdle
    /\ AdapterIdle
    /\ CalendarIdle

ProcessMessage(chat, chat_type, has_text, user) ==
    /\ CanDispatch
    /\ FreeSlots # {}
    /\ WithinBudget(nmsg + 1, ncb)
    /\ LET msg == nmsg + 1
           r == StartHandler(chat_contexts, chat_settings, provider_keys,
                             handlers[LowestFree],
                             chat, chat_type, has_text, user, msg)
           sent == r.handler.pc = "await_post" /\ r.handler.msg = msg
       IN  /\ chat_contexts' = r.contexts
           /\ handlers' = [handlers EXCEPT ![LowestFree] = r.handler]
           /\ appended' = IF sent
                          THEN [appended EXCEPT ![chat] = Append(@, UserEntry(user, msg))]
                          ELSE appended
           /\ shown' = IF sent
                       THEN <<Reading("message", chat, r.handler.payload[1].model_config)>>
                       ELSE shown
           /\ nmsg' = IF sent THEN msg ELSE nmsg
    /\ UNCHANGED <<chat_settings, concurrent_updates, ncb, callbacks,
                   provider_keys, api_log, adapterVars, calendarVars, startupVars>>

PostReturns(h, outcome) ==
    /\ handlers[h].pc = "await_post"
    /\ LET r == HandleResponse(chat_contexts, handlers[h], outcome)
           chat == handlers[h].chat
       IN  /\ chat_contexts' = r.contexts
           /\ handlers' = [handlers EXCEPT ![h] = r.handler]
           /\ appended' =
                  IF "append_reply" \in {r.handler.steps[i] : i \in DOMAIN r.handler.steps}
                  THEN [appended EXCEPT ![chat] = Append(@, AssistantEntry(outcome.body.response))]
                  ELSE appended
    /\ UNCHANGED <<chat_settings, concurrent_updates, shown, nmsg, ncb, callbacks,
                   provider_keys, api_log, adapterVars, calendarVars, startupVars>>

\* bot.py:205-241.  After a provider selection the handler calls model_command
\* with the callback update, whose update.message is None: model_command reads
\* the settings and then fails in reply_text, inside and again outside its
\* try block, so the exception leaves button_callback before message.delete().
ButtonCallback(chat, data) ==
    /\ CanDispatch
    /\ WithinBudget(nmsg, ncb + 1)
    /\ chat_settings' = ApplyCallback(chat_settings, chat, data)
    /\ shown' = IF StartsWith(data, "provider")
                THEN <<Reading("model", chat, GetSettings(chat_settings', chat))>>
                ELSE <<>>
    /\ ncb' = ncb + 1
    /\ callbacks' = Append(callbacks, [chat |-> chat, data |-> data,
                                       escaped |-> StartsWith(data, "provider")])
    /\ UNCHANGED <<chat_contexts, handlers, concurrent_updates, nmsg, appended,
                   provider_keys, api_log, adapterVars, calendarVars, startupVars>>

\* bot.py:90-120: /status reads the settings and pings GET /health
StatusCommand(chat) ==
    /\ CanDispatch
    /\ shown' = <<Reading("status", chat, GetSettings(chat_settings, chat))>>
    /\ UNCHANGED <<chat_contexts, chat_settings, handlers, concurrent_updates,
                   nmsg, ncb, appended, callbacks, provider_keys, api_log,
                   adapterVars, calendarVars, startupVars>>

\* bot.py:122-203: /model reads the settings and renders the selection menu
ModelCommand(chat) ==
    /\ CanDispatch
    /\ shown' = <<Reading("model", chat, GetSettings(chat_settings, chat))>>
    /\ UNCHANGED <<chat_contexts, chat_settings, handlers, concurrent_updates,
                   nmsg, ncb, appended, callbacks, provider_keys, api_log,
                   adapterVars, calendarVars, startupVars>>

Next ==
    \/ \E chat \in Chats, chat_type \in ChatTypes, has_text \in BOOLEAN, user \in Users :
           ProcessMessage(chat, chat_type, has_text, user)
    \/ \E h \in Handlers, outcome \in Outcomes : PostReturns(h, outcome)
    \/ \E chat \in Chats, data \in CallbackData : ButtonCallback(chat, data)
    \/ \E chat \in Chats : StatusCommand(chat)
    \/ \E chat \in Chats : ModelCommand(chat)

Spec == Init /\ [][Next]_vars

----------------------------------------------------------------------------
(* Startup *)

InitStartup ==
    /\ InitStores
    /\ concurrent_updates = FALSE
    /\ environ \in Environs
    /\ bot_state = "not_started"
    /\ BackendIdle
    /\ AdapterIdle
    /\ CalendarIdle

\* bot.py:385-386 with the imports at its top: the process starts
Main ==
    /\ bot_state = "not_started"
    /\ bot_state' = StartBot(environ)
    /\ UNCHANGED <<chat_contexts, chat_settings, handlers, concurrent_updates,
                   shown, nmsg, ncb, appended, callbacks, environ, backend_state,
                   provider_keys, api_log, adapterVars, calendarVars>>

NextStartup == Main \/ Next

SpecStartup == InitStartup /\ [][NextStartup]_vars

----------------------------------------------------------------------------
(* The backend: POST /chat *)

Providers == {"formation", "openai"}

ApiKeyHeaders == { <<>>, <<"secret">>, <<"wrong">> }

SomeContext == << [party |-> "alice", message |-> "hello"] >>

\* Request bodies: the ChatRequest shape with and without its optional
\* fields, a body without systemPrompt, and the body the bot sends.
RequestBodies ==
    { [chatContext |-> SomeContext, systemPrompt |-> "prompt"],
      [chatContext |-> SomeContext, systemPrompt |-> "prompt",
       modelProvider |-> <<"openai">>, modelId |-> <<"gpt-4o">>, chatId |-> "c1"],
      [chatContext |-> SomeContext, systemPrompt |-> "prompt",
       modelProvider |-> <<"mistral">>, modelId |-> <<"large">>],
      [chatContext |-> SomeContext, systemPrompt |-> "prompt",
       modelProvider |-> <<"">>, modelId |-> <<"">>],
      [chatContext |-> SomeContext],
      BuildPayload([c \in {"c1"} |-> <<UserEntry("alice", 1)>>], <<>>, "c1") }

\* What agent.run does: returns a text, returns no content, or raises.
AgentRuns == {"text", "no_content", "raises"}

AGENT_ERROR_REPLY ==
    "I encountered an error while processing your request. Please try again later."

Field(body, key, default) == IF key \in DOMAIN body THEN body[key] ELSE default

\* main.py:44-53 verify_api_key
VerifyApiKey(api_key) == api_key = API_SECRET_KEY

\* Mutant of ValidChatRequest: the snake_case names of the bot are accepted as
\* aliases of the two required fields.
ValidChatRequestAliases(body) ==
    \/ {"chatContext", "systemPrompt"} \subseteq DOMAIN body
    \/ {"messages", "system_prompt"} \subseteq DOMAIN body

\* main.py:60-66: pydantic's validation of the body against ChatRequest
ValidChatRequest(body) ==
    /\ {"chatContext", "systemPrompt"} \subseteq DOMAIN body
    /\ \A i \in DOMAIN body.chatContext :
           {"party", "message"} \subseteq DOMAIN body.chatContext[i]

\* main.py:106-107 and theoAgent.py:54-55: `value or default`, the default
\* standing in for None and for the empty text
OrDefault(value, default) == IF IsFalsy(value) THEN default ELSE value

\* theoAgent.py:59-81: the agent's model is built, or ValueError is raised
AgentCreated(keys, provider) ==
    \/ (provider = <<"formation">> /\ "formation" \in keys)
    \/ (provider = <<"openai">> /\ "openai" \in keys)

Rejected(status, detail) ==
    [status |-> status, detail |-> detail, response |-> "",
     agent_created |-> FALSE, agent_invoked |-> FALSE]

\* theoAgent.py:142-174: the agent's answer; its own failures become a sentence
AgentAnswer(run) ==
    IF run = "raises" THEN <<AGENT_ERROR_REPLY>>
    ELSE IF run = "no_content" THEN <<>>
    ELSE <<"answer">>

\* main.py:93-136 with its dependency: the answer to one POST /chat.  A
\* request without the header is rejected by APIKeyHeader itself, with the
\* status of the installed FastAPI (missing_status).
ProcessChat(keys, api_key, body, run, missing_status) ==
    IF api_key = <<>>
    THEN Rejected(missing_status, "Not authenticated")
    ELSE IF ~VerifyApiKey(api_key[1])
    THEN Rejected(401, "Invalid API key")
    ELSE IF ~ValidChatRequest(body)
    THEN Rejected(422, "validation error")
    ELSE LET provider == OrDefault(Field(body, "modelProvider", <<>>),
                                   DEFAULT_MODEL_PROVIDER)
         IN  IF ~AgentCreated(keys, provider)
             THEN Rejected(500, "Error processing chat request")
             ELSE IF AgentAnswer(run) = <<>>
             THEN [status |-> 500, detail |-> "Error processing chat request",
                   response |-> "", agent_created |-> TRUE, agent_invoked |-> TRUE]
             ELSE [status |-> 200, detail |-> "", response |-> AgentAnswer(run)[1],
                   agent_created |-> TRUE, agent_invoked |-> TRUE]

\* config.py:95-116: the names utils/config.py defines for import
CONFIG_NAMES ==
    {"API_SECRET_KEY", "OPENAI_API_KEY", "FORMATION_API_KEY", "TELEGRAM_BOT_TOKEN",
     "ENVIRONMENT", "DEFAULT_MODEL_PROVIDER", "DEFAULT_MODEL_ID", "API_ENDPOINT",
     "FORMATION_API_BASE_URL", "GOOGLE_CALENDAR_CLIENT_ID",
     "GOOGLE_CALENDAR_CLIENT_SECRET", "GOOGLE_CALENDAR_REDIRECT_URI"}

\* theoAgent.py:20-28: from utils.config import ...
AGENT_CONFIG_IMPORTS ==
    {"OPENAI_API_KEY", "FORMATION_API_KEY", "TELEGRAM_BOT_TOKEN",
     "DEFAULT_MODEL_PROVIDER", "DEFAULT_MODEL_ID", "FORMATION_API_BASE_URL",
     "GOOGLE_CALENDAR_CREDENTIALS_PATH"}

\* main.py:19: from utils.config import ...
MAIN_CONFIG_IMPORTS == {"API_SECRET_KEY", "DEFAULT_MODEL_PROVIDER", "DEFAULT_MODEL_ID"}

\* `from utils.config import names`: ImportError when a name is not defined
ImportsResolve(names) == names \subseteq CONFIG_NAMES

\* The import of api.main (main.py:1-42): utils.config is executed
\* (config.py:95, 98), theoAgent.py takes its names from it (main.py:18),
\* then main.py takes its own (main.py:19) and creates app (main.py:26).
ImportApiMain(env) ==
    IF ~GetRequired(env, "API_SECRET_KEY") \/ ~GetRequired(env, "TELEGRAM_BOT_TOKEN")
    THEN "import_failed"                              \* ValueError
    ELSE IF ~ImportsResolve(AGENT_CONFIG_IMPORTS)
    THEN "import_failed"                              \* ImportError
    ELSE IF ~ImportsResolve(MAIN_CONFIG_IMPORTS)
    THEN "import_failed"
    ELSE "serving"

\* A request to a backend whose app was never created gets no response.
NotServed ==
    [status |-> 0, detail |-> "no response", response |-> "",
     agent_created |-> FALSE, agent_invoked |-> FALSE]

InitBackend ==
    /\ InitBot
    /\ provider_keys \in SUBSET Providers
    /\ api_log = <<>>
    /\ backend_state = "not_started"
    /\ AdapterIdle
    /\ CalendarIdle

\* main.py:193-194: uvicorn imports api.main to get app
StartBackend ==
    /\ backend_state = "not_started"
    /\ backend_state' = ImportApiMain(environ)
    /\ UNCHANGED <<chat_contexts, chat_settings, handlers, concurrent_updates,
                   shown, nmsg, ncb, appended, callbacks, environ, bot_state,
                   provider_keys, api_log, adapterVars, calendarVars>>

\* A client sends POST /chat once the backend process has been started.
PostChat(api_key, body, run, missing_status) ==
    /\ backend_state # "not_started"
    /\ Len(api_log) < MaxRequests
    /\ api_log' = Append(api_log,
                         [api_key |-> api_key, body |-> body, run |-> run,
                          result |-> IF backend_state = "serving"
                                     THEN ProcessChat(provider_keys, api_key, body,
                                                      run, missing_status)
                                     ELSE NotServed])
    /\ UNCHANGED <<botVars, provider_keys, adapterVars, calendarVars>>

NextBackend ==
    \/ StartBackend
    \/ \E api_key \in ApiKeyHeaders, body \in RequestBodies, run \in AgentRuns,
          missing_status \in {401, 403} :
           PostChat(api_key, body, run, missing_status)

SpecBackend == InitBackend /\ [][NextBackend]_vars

----------------------------------------------------------------------------
(* The Formation adapter: reading a streamed response *)

\* JSON texts are tokens; json.loads is a table from the texts that parse to
\* the values they denote.
JsonTexts == {"{\"n\":1}", "{\"n\":2}"}

JsonValue(text) == IF text = "{\"n\":1}" THEN [n |-> 1] ELSE [n |-> 2]

\* formation.py:351 json.loads: << value >>, or << >> for JSONDecodeError
JsonLoads(data_str) ==
    IF Len(data_str) = 1 /\ data_str[1] \in JsonTexts
    THEN <<JsonValue(data_str[1])>>
    ELSE <<>>

\* The lines of a response, each a sequence of tokens: chunks with and
\* without a blank after the field name, a chunk that is not JSON, an empty
\* chunk, the sentinel in two spellings, a line of another field, a blank line.
Lines ==
    { <<"data:", " ", "{\"n\":1}">>,
      <<"data:", "{\"n\":2}", " ">>,
      <<"data:", " ", "{\"n\":">>,
      <<"data:">>,
      <<"data:", " ", "[DONE]">>,
      <<"data:", "[DONE]", " ">>,
      <<"event:", " ", "{\"n\":1}">>,
      <<>> }

RECURSIVE LStrip(_)
LStrip(text) ==
    IF text # <<>> /\ Head(text) = " " THEN LStrip(Tail(text)) ELSE text

RECURSIVE RStrip(_)
RStrip(text) ==
    IF text # <<>> /\ text[Len(text)] = " "
    THEN RStrip(SubSeq(text, 1, Len(text) - 1))
    ELSE text

\* str.strip()
Strip(text) == RStrip(LStrip(text))

\* line.startswith("data:")
IsDataLine(line) == line # <<>> /\ Head(line) = "data:"

\* line[5:].strip()
DataStr(line) == Strip(Tail(line))

\* Mutant of StreamStep: a chunk that does not parse ends the loop, as an
\* exception that is not caught inside it would.
StreamStepStopOnError(line) ==
    IF ~IsDataLine(line)
    THEN [yield |-> <<>>, stop |-> FALSE]
    ELSE IF DataStr(line) = <<"[DONE]">>
    THEN [yield |-> <<>>, stop |-> TRUE]
    ELSE [yield |-> JsonLoads(DataStr(line)), stop |-> JsonLoads(DataStr(line)) = <<>>]

\* Mutant of StreamStep: the sentinel is not looked for.
StreamStepNoSentinel(line) ==
    IF ~IsDataLine(line)
    THEN [yield |-> <<>>, stop |-> FALSE]
    ELSE [yield |-> JsonLoads(DataStr(line)), stop |-> FALSE]

\* formation.py:344-354: the body of the loop for one line
StreamStep(line) ==
    IF ~IsDataLine(line)
    THEN [yield |-> <<>>, stop |-> FALSE]
    ELSE IF DataStr(line) = <<"[DONE]">>
    THEN [yield |-> <<>>, stop |-> TRUE]                    \* break
    ELSE [yield |-> JsonLoads(DataStr(line)), stop |-> FALSE]

RECURSIVE SeqsUpTo(_, _)
SeqsUpTo(S, n) ==
    IF n = 0 THEN {<<>>}
    ELSE LET shorter == SeqsUpTo(S, n - 1)
         IN  shorter \cup {Append(q, x) : q \in shorter, x \in S}

InitStream ==
    /\ InitBot
    /\ BackendIdle
    /\ lines \in SeqsUpTo(Lines, MaxLines)
    /\ line_no = 0
    /\ yielded = <<>>
    /\ stream_open = TRUE
    /\ ToolCallsIdle
    /\ RequestIdle
    /\ ParseIdle
    /\ CalendarIdle

\* formation.py:343-354 and 391-402: the loop takes the next line
IterLine ==
    /\ stream_open
    /\ line_no < Len(lines)
    /\ LET r == StreamStep(lines[line_no + 1])
       IN  /\ line_no' = line_no + 1
           /\ yielded' = yielded \o r.yield
           /\ stream_open' = ~r.stop
    /\ UNCHANGED <<botVars, provider_keys, api_log, calendarVars,
                   lines, toolVars, requestVars,
                   parseVars>>

\* formation.py:343: iter_lines() is exhausted
StreamEnds ==
    /\ stream_open
    /\ line_no = Len(lines)
    /\ stream_open' = FALSE
    /\ UNCHANGED <<botVars, provider_keys, api_log, calendarVars,
                   lines, line_no, yielded, toolVars,
                   requestVars, parseVars>>

NextStream == IterLine \/ StreamEnds

SpecStream == InitStream /\ [][NextStream]_vars

----------------------------------------------------------------------------
(* The Formation adapter: parse_tool_calls *)

\* Texts are sequences of fragments, << >> being the empty text, and + on
\* texts is \o.  An id is << >> for None or a text.  A dict is a function on
\* its keys, and a key that a chunk does not carry is not in its domain.

EmptyDict == [key \in {} |-> <<>>]

\* A dict of the keys whose value is given: each field is << >> when the key
\* is left out and << value >> otherwise.
Dict(fields) ==
    LET present == {key \in DOMAIN fields : fields[key] # <<>>}
    IN  [key \in present |-> fields[key][1]]

ChunkIndexes == {<<>>, <<1>>}
ChunkIds == {<<>>, << <<"a">> >>, << <<"b">> >>}
ChunkTypes == {<<>>, << <<"custom">> >>}
ChunkFunctions ==
    { [name |-> <<"f">>, arguments |-> <<"{x:">>],
      [arguments |-> <<"1}">>] }

\* The chunks of a stream: with and without index, id and type; the function
\* field opens a call with a name or carries a further fragment.
ToolCallChunks ==
    { Dict([index |-> index, id |-> id, type |-> type, function |-> <<function>>]) :
          index \in ChunkIndexes, id \in ChunkIds, type \in ChunkTypes,
          function \in ChunkFunctions }

\* formation.py:435-436: tool_calls.extend([{}] * n) appends n references to
\* one new dict object.
ExtendTo(list, objects, index) ==
    IF Len(list) <= index
    THEN [list |-> list \o [i \in 1..(index - Len(list) + 1) |-> Len(objects) + 1],
          objects |-> Append(objects, EmptyDict)]
    ELSE [list |-> list, objects |-> objects]

\* formation.py:426-455: the body of the loop for one chunk
ParseToolCall(list, objects, tool_call) ==
    LET index == Field(tool_call, "index", 0)
        tool_call_id == Field(tool_call, "id", <<>>)
        tool_call_type == Field(tool_call, "type", <<"function">>)
        function_data == Field(tool_call, "function", EmptyDict)
        function_name == Field(function_data, "name", <<>>)
        function_arguments == Field(function_data, "arguments", <<>>)
        extended == ExtendTo(list, objects, index)
        ref == extended.list[index + 1]
        tool_call_entry == extended.objects[ref]
        updated ==
            IF DOMAIN tool_call_entry = {}
            THEN [id |-> tool_call_id,
                  type |-> tool_call_type,
                  function |-> [name |-> function_name,
                                arguments |-> function_arguments]]
            ELSE [id |-> IF tool_call_id # <<>> THEN tool_call_id
                         ELSE tool_call_entry.id,
                  type |-> IF tool_call_type # <<>> THEN tool_call_type
                           ELSE tool_call_entry.type,
                  function |->
                      [name |-> tool_call_entry.function.name \o function_name,
                       arguments |->
                           tool_call_entry.function.arguments \o function_arguments]]
    IN  [list |-> extended.list,
         objects |-> [extended.objects EXCEPT ![ref] = updated]]

InitToolCalls ==
    /\ InitBot
    /\ BackendIdle
    /\ StreamIdle
    /\ tool_calls_data \in SeqsUpTo(ToolCallChunks, MaxChunks)
    /\ chunk_no = 0
    /\ tool_calls = <<>>
    /\ entries = <<>>
    /\ RequestIdle
    /\ ParseIdle
    /\ CalendarIdle

\* formation.py:426: the loop takes the next chunk
TakeChunk ==
    /\ chunk_no < Len(tool_calls_data)
    /\ LET r == ParseToolCall(tool_calls, entries, tool_calls_data[chunk_no + 1])
       IN  /\ tool_calls' = r.list
           /\ entries' = r.objects
    /\ chunk_no' = chunk_no + 1
    /\ UNCHANGED <<botVars, provider_keys, api_log, calendarVars,
                   streamVars, tool_calls_data,
                   requestVars, parseVars>>

NextToolCalls == TakeChunk

SpecToolCalls == InitToolCalls /\ [][NextToolCalls]_vars

----------------------------------------------------------------------------
(* The Formation adapter: the body of a request *)

\* A field that may be None is << >> for None and << value >> otherwise.

SAMPLING_PARAMS ==
    {"temperature", "max_tokens", "top_p", "stop", "frequency_penalty",
     "presence_penalty", "seed"}

\* The instances: every sampling parameter unset or set, zero and the empty
\* list among the values; with and without tools, tool_choice and
\* request_params; with the default max_retries or none, with and without a
\* client handed in.
Models ==
    [id : {"best-quality"},
     max_retries : {<<>>, <<3>>},
     client : {<<>>, <<"handed_in">>},
     temperature : {<<>>, <<0>>, <<1>>},
     max_tokens : {<<>>, <<256>>},
     top_p : {<<>>, <<1>>},
     stop : {<<>>, << <<>> >>, << <<"END">> >>},
     frequency_penalty : {<<>>, <<0>>},
     presence_penalty : {<<>>, <<0>>},
     seed : {<<>>, <<0>>, <<42>>},
     tools : {<<>>, << <<"create_calendar_event">> >>},
     tool_choice : {<<>>, <<"required">>},
     request_params : {<<>>, <<[temperature |-> 1]>>}]

MessageLists ==
    { <<>>,
      << [role |-> "system", content |-> <<"prompt">>],
         [role |-> "user", content |-> <<>>] >> }

\* formation.py:225-245 _format_message, for a message without name and tool calls
FormatMessage(message) ==
    [role |-> message.role,
     content |-> IF message.content # <<>> THEN message.content[1] ELSE "",
     tool_calls |-> <<>>]

\* Mutant of IsNotNone: the test `if self.x:` in place of `is not None`.
IsTruthy(instance, key) ==
    /\ instance[key] # <<>>
    /\ IF key = "stop" THEN instance[key][1] # <<>> ELSE instance[key][1] # 0

\* formation.py:162-181: self.<key> is not None
IsNotNone(instance, key) == instance[key] # <<>>

\* formation.py:150-193 request_kwargs
RequestKwargs(instance) ==
    LET sampling ==
            [key \in {k \in SAMPLING_PARAMS : IsNotNone(instance, k)} |->
                instance[key][1]]
        tools ==
            IF instance.tools # <<>>
            THEN ("tools" :> instance.tools[1])
                 @@ ("tool_choice" :> IF instance.tool_choice = <<>> THEN "auto"
                                      ELSE instance.tool_choice[1])
            ELSE EmptyDict
        _request_params == ("model" :> instance.id) @@ sampling @@ tools
    IN  IF instance.request_params # <<>>
        THEN instance.request_params[1] @@ _request_params      \* dict.update
        ELSE _request_params

\* formation.py:260-263: {**self.request_kwargs, "messages": [...]}
RequestData(instance, msgs) ==
    ("messages" :> [i \in 1..Len(msgs) |-> FormatMessage(msgs[i])])
    @@ RequestKwargs(instance)

InitRequest ==
    /\ InitBot
    /\ BackendIdle
    /\ StreamIdle
    /\ ToolCallsIdle
    /\ ParseIdle
    /\ model \in {<<instance>> : instance \in Models}
    /\ invoke_messages \in MessageLists
    /\ request_data = <<>>
    /\ invoke_result = <<>>
    /\ CalendarIdle

\* formation.py:86-121 get_client_params: the keyword arguments for the client
ClientParams(instance) ==
    {"base_url", "timeout", "headers"}
    \cup (IF IsNotNone(instance, "max_retries") THEN {"max_retries"} ELSE {})

\* formation.py:134, 147: the keyword parameters httpx.Client and
\* httpx.AsyncClient take; any other keyword is a TypeError.
HTTPX_CLIENT_PARAMS ==
    {"auth", "params", "headers", "cookies", "verify", "cert", "http1", "http2",
     "proxy", "mounts", "timeout", "follow_redirects", "limits", "max_redirects",
     "event_hooks", "base_url", "transport", "trust_env", "default_encoding"}

\* formation.py:123-135 get_client and 137-148 get_async_client: the client
\* held, a client built, or << >> when building it raises TypeError
GetClient(instance) ==
    IF instance.client # <<>> THEN instance.client
    ELSE IF ClientParams(instance) \subseteq HTTPX_CLIENT_PARAMS THEN <<"built">>
    ELSE <<>>

\* How the POST to /chat/completions ends: a response with a status and a
\* body that is JSON (<< value >>) or not (<< >>), a timeout, or a failure
\* to connect.
ProviderOutcomes ==
    { [kind |-> "response", status |-> 200, json |-> <<[choices |-> <<>>]>>],
      [kind |-> "response", status |-> 200, json |-> <<>>],
      [kind |-> "response", status |-> 429, json |-> <<[error |-> "rate"]>>],
      [kind |-> "response", status |-> 500, json |-> <<>>],
      [kind |-> "timeout", status |-> 0, json |-> <<>>],
      [kind |-> "connect_error", status |-> 0, json |-> <<>>] }

Returned(value) == [kind |-> "returned", value |-> <<value>>, exception |-> "none",
                    cause |-> "none"]

Raised(exception, cause) ==
    [kind |-> "raised", value |-> <<>>, exception |-> exception, cause |-> cause]

\* The call ends before any POST: the client could not be built.
NoClient == [kind |-> "no_client", status |-> 0, json |-> <<>>]

\* The exception, if any, that the try block of invoke raises.
TryInvoke(outcome) ==
    IF outcome.kind = "no_client" THEN "TypeError"                \* get_client()
    ELSE IF outcome.kind = "timeout" THEN "TimeoutException"
    ELSE IF outcome.kind = "connect_error" THEN "ConnectError"
    ELSE IF ~IsSuccess(outcome.status) THEN "HTTPStatusError"     \* raise_for_status
    ELSE IF outcome.json = <<>> THEN "JSONDecodeError"            \* response.json()
    ELSE "none"

\* Mutant of InvokeResult: only the first except clause; a timeout and any
\* other failure leave invoke as they are.
InvokeResultFirstClauseOnly(outcome) ==
    LET failure == TryInvoke(outcome)
    IN  IF failure = "none" THEN Returned(outcome.json[1])
        ELSE IF failure = "HTTPStatusError" THEN Raised("ModelProviderError", failure)
        ELSE Raised(failure, failure)

\* formation.py:257-280 invoke and 292-315 ainvoke: the value returned or the
\* exception raised
InvokeResult(outcome) ==
    LET failure == TryInvoke(outcome)
    IN  IF failure = "none" THEN Returned(outcome.json[1])
        ELSE IF failure = "HTTPStatusError" THEN Raised("ModelProviderError", failure)
        ELSE IF failure = "TimeoutException" THEN Raised("ModelProviderError", failure)
        ELSE Raised("ModelProviderError", failure)                \* except Exception

\* formation.py:257-268 invoke and 292-303 ainvoke, up to the POST: the client
\* is taken or built and kept, then the body is built; when the client cannot
\* be built the call ends here, with no body and no POST.
Invoke ==
    /\ model # <<>>
    /\ request_data = <<>>
    /\ invoke_result = <<>>
    /\ LET client == GetClient(model[1])
       IN  IF client = <<>>
           THEN /\ invoke_result' = <<[outcome |-> NoClient,
                                       result |-> InvokeResult(NoClient)]>>
                /\ UNCHANGED <<model, request_data>>
           ELSE /\ model' = <<[model[1] EXCEPT !.client = client]>>
                /\ request_data' = <<RequestData(model[1], invoke_messages)>>
                /\ UNCHANGED invoke_result
    /\ UNCHANGED <<botVars, provider_keys, api_log, calendarVars,
                   streamVars, toolVars, invoke_messages, parseVars>>

\* formation.py:265-280: the POST ends and invoke returns or raises
PostCompletes(outcome) ==
    /\ request_data # <<>>
    /\ invoke_result = <<>>
    /\ invoke_result' = <<[outcome |-> outcome, result |-> InvokeResult(outcome)]>>
    /\ UNCHANGED <<botVars, provider_keys, api_log, calendarVars,
                   streamVars, toolVars, model,
                   invoke_messages, request_data, parseVars>>

NextRequest ==
    \/ Invoke
    \/ \E outcome \in ProviderOutcomes : PostCompletes(outcome)

SpecRequest == InitRequest /\ [][NextRequest]_vars

----------------------------------------------------------------------------
(* The Formation adapter: parse_provider_response *)

\* A JSON value that may be null is << >> for null and << value >> otherwise.
\* The arguments of a tool call are a text or an object; json.dumps is a table
\* from the objects to their texts.

Text(text) == [kind |-> "str", text |-> text]
Object(value) == [kind |-> "dict", value |-> value]

\* json.dumps with its default separators
JsonDumps(value) ==
    IF value = EmptyDict THEN "{}"
    ELSE IF value = [x |-> 1] THEN "{\"x\": 1}"
    ELSE "{\"x\": 2}"

ArgumentValues ==
    { Text("{\"x\":1}"), Text(""), Object([x |-> 1]), Object([x |-> 2]),
      Object(EmptyDict) }

\* The tool calls of a response: arguments as text and as object, and a call
\* without function.
ResponseToolCalls ==
    { [id |-> "call_1", type |-> "function",
       function |-> [name |-> "f", arguments |-> arguments]] :
          arguments \in ArgumentValues }
    \cup { [id |-> "call_2", type |-> "function"] }

ResponseMessages ==
    { Dict([role |-> <<"assistant">>, content |-> content, tool_calls |-> calls]) :
          content \in {<<>>, << <<>> >>, << <<"hello">> >>},
          calls \in {<<>>, << <<>> >>}
                    \cup { << <<list>> >> : list \in SeqsUpTo(ResponseToolCalls,
                                                               MaxToolCalls) } }

\* The responses: without choices, with none, with one message; with and
\* without usage.
Responses ==
    { Dict([choices |-> choices, usage |-> usage]) :
          choices \in {<<>>, << <<>> >>}
                      \cup { << <<[message |-> message]>> >> :
                                 message \in ResponseMessages },
          usage \in {<<>>, <<[total_tokens |-> 7]>>} }

\* Mutant of NormalizeArguments: the arguments are passed on as they arrived.
NormalizeArgumentsKeep(tool_call) == tool_call

\* formation.py:485-486: a dict of arguments is replaced by its JSON text
NormalizeArguments(tool_call) ==
    LET arguments == Field(Field(tool_call, "function", EmptyDict), "arguments", <<>>)
    IN  IF arguments # <<>> /\ arguments.kind = "dict"
        THEN [tool_call EXCEPT !.function.arguments = Text(JsonDumps(arguments.value))]
        ELSE tool_call

\* formation.py:459-491 parse_provider_response
ParseProviderResponse(resp) ==
    LET has_choices == "choices" \in DOMAIN resp /\ Len(resp.choices) > 0
        response_message ==
            IF has_choices THEN Field(resp.choices[1], "message", EmptyDict)
            ELSE EmptyDict
        calls == Field(response_message, "tool_calls", <<>>)
    IN  [role |-> IF "role" \in DOMAIN response_message
                  THEN <<response_message.role>> ELSE <<>>,
         content |-> Field(response_message, "content", <<>>),
         tool_calls |-> IF calls # <<>>
                        THEN <<[i \in 1..Len(calls[1]) |-> NormalizeArguments(calls[1][i])]>>
                        ELSE <<>>,
         response_usage |-> IF "usage" \in DOMAIN resp THEN <<resp.usage>> ELSE <<>>]

InitParse ==
    /\ InitBot
    /\ BackendIdle
    /\ StreamIdle
    /\ ToolCallsIdle
    /\ RequestIdle
    /\ response \in {<<resp>> : resp \in Responses}
    /\ response_arrived = response
    /\ model_response = <<>>
    /\ CalendarIdle

\* formation.py:478-486: the list of tool calls of the ModelResponse is the
\* list of the response, so the response handed in holds the rewritten
\* arguments after the call.
RewrittenResponse(resp) ==
    LET has_choices == "choices" \in DOMAIN resp /\ Len(resp.choices) > 0
        has_message == has_choices /\ "message" \in DOMAIN resp.choices[1]
        calls == IF has_message
                 THEN Field(resp.choices[1].message, "tool_calls", <<>>)
                 ELSE <<>>
    IN  IF calls # <<>>
        THEN [resp EXCEPT !.choices[1].message.tool_calls =
                  <<[i \in 1..Len(calls[1]) |-> NormalizeArguments(calls[1][i])]>>]
        ELSE resp

ParseResponse ==
    /\ response # <<>>
    /\ model_response = <<>>
    /\ model_response' = <<ParseProviderResponse(response[1])>>
    /\ response' = <<RewrittenResponse(response[1])>>
    /\ UNCHANGED <<botVars, provider_keys, api_log, calendarVars,
                   streamVars, toolVars, requestVars,
                   response_arrived>>

NextParse == ParseResponse

SpecParse == InitParse /\ [][NextParse]_vars

----------------------------------------------------------------------------
(* The calendar integration: create_calendar_event *)

\* What the call finds: the state of token.json, how a refresh ends, whether
\* credentials.json is there or can be written, how the OAuth flow, the
\* writing of the new token and build() end, what events().insert() gives,
\* and whether the attendees can be iterated.
CalendarEnvs ==
    [token : {"absent", "unreadable", "valid", "expired_refreshable", "invalid"},
     refresh : {"ok", "raises"},
     credentials_file : {"exists", "creatable", "env_missing", "write_fails"},
     flow : {"ok", "raises"},
     token_write : {"ok", "raises"},
     build : {"ok", "raises"},
     insert : {"event", "event_without_link", "event_without_id", "raises"},
     attendees : {"list", "none"}]

NoService == [service |-> FALSE, exception |-> FALSE]

\* googleCalendar.py:114-119: build() in its try block
BuildService(env) == [service |-> env.build = "ok", exception |-> FALSE]

\* googleCalendar.py:70-119 get_calendar_service: whether a service is
\* returned (None otherwise) and whether an exception leaves the function
GetCalendarService(env) ==
    IF env.token = "valid"
    THEN BuildService(env)
    ELSE IF env.token = "expired_refreshable"
    THEN IF env.refresh = "ok" THEN BuildService(env) ELSE NoService
    ELSE IF env.credentials_file \in {"env_missing", "write_fails"}
    THEN NoService                                   \* create_credentials_file fails
    ELSE IF env.flow = "raises"
    THEN NoService
    ELSE IF env.token_write = "raises"
    THEN [service |-> FALSE, exception |-> TRUE]     \* open(TOKEN_FILE, 'w') raises
    ELSE BuildService(env)

ErrorResult(text) == [key \in {"error"} |-> text]

\* googleCalendar.py:144-176: the try block of create_calendar_event
TryCreateEvent(env) ==
    LET found == GetCalendarService(env)
        raises(calls) == [result |-> <<>>, insert_calls |-> calls, exception |-> TRUE]
    IN  IF found.exception
        THEN raises(0)
        ELSE IF ~found.service
        THEN [result |-> <<ErrorResult("Failed to authenticate with Google Calendar")>>,
              insert_calls |-> 0, exception |-> FALSE]
        ELSE IF env.attendees = "none"
        THEN raises(0)                               \* iterating None
        ELSE IF env.insert \in {"raises", "event_without_id"}
        THEN raises(1)                               \* HttpError, KeyError 'id'
        ELSE [result |->
                  <<[eventId |-> "event-1",
                     eventLink |-> IF env.insert = "event" THEN "https://link" ELSE "",
                     message |-> "Calendar event created successfully"]>>,
              insert_calls |-> 1, exception |-> FALSE]

\* Mutant of CreateCalendarEvent: without the except clause.
CreateCalendarEventNoExcept(env) ==
    LET tried == TryCreateEvent(env)
    IN  [result |-> tried.result, insert_calls |-> tried.insert_calls,
         raised |-> tried.exception]

\* googleCalendar.py:121-181 create_calendar_event
CreateCalendarEvent(env) ==
    LET tried == TryCreateEvent(env)
    IN  IF tried.exception
        THEN [result |-> <<ErrorResult("Error creating calendar event")>>,
              insert_calls |-> tried.insert_calls, raised |-> FALSE]
        ELSE [result |-> tried.result, insert_calls |-> tried.insert_calls,
              raised |-> FALSE]

InitCalendar ==
    /\ InitBot
    /\ BackendIdle
    /\ AdapterIdle
    /\ calendar_env \in {<<env>> : env \in CalendarEnvs}
    /\ calendar_result = <<>>
    /\ calendar_raised = FALSE
    /\ insert_calls = 0
    /\ calendar_calls = 0

CalendarCalled == calendar_result # <<>> \/ calendar_raised

\* googleCalendar.py:81-112: the files a call leaves behind.  Without usable
\* credentials in token.json, credentials.json is written when it is not
\* there (create_credentials_file, 39-68), and after a flow that succeeds
\* token.json is written with the new credentials.  A refresh is not saved.
CalendarEnvAfter(env) ==
    IF env.token \in {"valid", "expired_refreshable"}
    THEN env
    ELSE IF env.credentials_file \in {"env_missing", "write_fails"}
    THEN env
    ELSE LET with_file == [env EXCEPT !.credentials_file = "exists"]
         IN  IF env.flow = "ok" /\ env.token_write = "ok"
             THEN [with_file EXCEPT !.token = "valid"]
             ELSE with_file

\* One call of create_calendar_event, in the files the earlier calls left.
CallCreateCalendarEvent ==
    /\ calendar_env # <<>>
    /\ calendar_calls < MaxCalendarCalls
    /\ LET r == CreateCalendarEvent(calendar_env[1])
       IN  /\ calendar_result' = r.result
           /\ calendar_raised' = r.raised
           /\ insert_calls' = insert_calls + r.insert_calls
    /\ calendar_env' = <<CalendarEnvAfter(calendar_env[1])>>
    /\ calendar_calls' = calendar_calls + 1
    /\ UNCHANGED <<botVars, provider_keys, api_log, adapterVars>>

NextCalendar == CallCreateCalendarEvent

SpecCalendar == InitCalendar /\ [][NextCalendar]_vars

----------------------------------------------------------------------------
(* Properties of the conversation buffer *)

Min(a, b) == IF a <= b THEN a ELSE b

Buffer(c) == IF c \in DOMAIN chat_contexts THEN chat_contexts[c] ELSE <<>>
BufferNext(c) == IF c \in DOMAIN chat_contexts' THEN chat_contexts'[c] ELSE <<>>

\* C1: in every reachable state each chat's buffer holds at most 10 messages.
BufferWithinLimit ==
    \A c \in Chats : Len(Buffer(c)) <= 10

\* C2: after k appends to a chat's buffer, its length is min(k, 10) and it
\* holds the min(k, 10) most recently appended messages, in arrival order.
BufferHoldsMostRecent ==
    \A c \in Chats :
        LET k == Len(appended[c])
        IN  /\ Len(Buffer(c)) = Min(k, 10)
            /\ Buffer(c) = SubSeq(appended[c], k - Min(k, 10) + 1, k)

\* C3: each chat's buffer is a contiguous suffix of the sequence of all the
\* messages ever appended for that chat: nothing reordered, nothing modified,
\* and what is missing is missing from the front.
BufferIsSuffixOfHistory ==
    \A c \in Chats :
        LET k == Len(appended[c])
            n == Len(Buffer(c))
        IN  /\ n <= k
            /\ \A i \in 1..n : Buffer(c)[i] = appended[c][k - n + i]

\* C3 witness: a buffer that has lost its oldest entries to the trim.
EvictionHappened ==
    \E c \in Chats :
        /\ Len(appended[c]) > Len(Buffer(c))
        /\ Len(Buffer(c)) >= 10

----------------------------------------------------------------------------
(* Properties of the settings store *)

HasEntry(store, c) == c \in DOMAIN store

OpenAI == <<"openai">>
Gpt4o == <<"gpt-4o">>
SelectOpenAI == <<"provider", ":", "openai">>
SelectGpt4o == <<"model", ":", "gpt-4o">>
OtherButton == <<"page", ":", "2">>

\* The callback queries of one chat, in the order they were handled.
ChatCallbacks(c) == SelectSeq(callbacks, LAMBDA e : e.chat = c)

\* A step in which a handler read the settings of chat c and no callback
\* query was handled.
ReadStep(c) ==
    /\ callbacks' = callbacks
    /\ shown' # <<>>
    /\ shown' # shown
    /\ shown'[1].chat = c

\* C4: a read of a chat's settings returns the stored pair, or the default
\* pair when none is stored, changes nothing in the store, and returns what
\* the previous read returned when no selection came in between.
ReadsLeaveStoreAlone ==
    [][\A c \in Chats :
          ReadStep(c) =>
              /\ chat_settings' = chat_settings
              /\ shown'[1].provider =
                     IF HasEntry(chat_settings, c)
                     THEN chat_settings[c].model_provider
                     ELSE <<"formation">>
              /\ shown'[1].model_id =
                     IF HasEntry(chat_settings, c)
                     THEN chat_settings[c].model_id
                     ELSE <<"best-quality">>
              /\ (shown # <<>> /\ shown[1].chat = c) =>
                     /\ shown'[1].provider = shown[1].provider
                     /\ shown'[1].model_id = shown[1].model_id]_vars

\* C4 witness: /status after /model in a chat whose stored pair is not the default.
StoredPairWasRead ==
    \E c \in Chats :
        /\ HasEntry(chat_settings, c)
        /\ chat_settings[c].model_provider = OpenAI
        /\ shown # <<>>
        /\ shown[1].chat = c
        /\ shown[1].by = "status"
        /\ shown[1].provider = OpenAI

\* C5: once a chat's callback provider:openai has been followed by its
\* callback model:gpt-4o, the chat's settings are openai / gpt-4o, whatever
\* they were before.
OpenAIThenGpt4oIsStored ==
    \A c \in Chats :
        LET log == ChatCallbacks(c)
            n == Len(log)
        IN  (n >= 2 /\ log[n - 1].data = SelectOpenAI /\ log[n].data = SelectGpt4o) =>
                /\ HasEntry(chat_settings, c)
                /\ chat_settings[c] = [model_provider |-> OpenAI, model_id |-> Gpt4o]

\* C5 witness: the two callbacks handled in a chat that had another selection stored.
OpenAIThenGpt4oSelected ==
    \E c \in Chats :
        LET log == ChatCallbacks(c)
        IN  /\ Len(log) = 3
            /\ log[1].data = <<"model", ":", "best-quality">>
            /\ log[2].data = SelectOpenAI
            /\ log[3].data = SelectGpt4o

IsSelection(data) ==
    /\ Len(data) >= 2
    /\ data[1] \in {"provider", "model"}
    /\ data[2] = ":"

CallbackStep == Len(callbacks') = Len(callbacks) + 1

SelectionStep(c) ==
    /\ CallbackStep
    /\ callbacks'[Len(callbacks')].chat = c
    /\ IsSelection(callbacks'[Len(callbacks')].data)

EntryChanged(c) ==
    \/ HasEntry(chat_settings, c) # HasEntry(chat_settings', c)
    \/ HasEntry(chat_settings, c) /\ chat_settings'[c] # chat_settings[c]

\* C6 as stated: the store changes only in the step of a provider or model
\* selection, and then only in the entry of the chat that selected.
StoreChangesOnlyOnSelection ==
    [][\A c \in Chats : EntryChanged(c) => SelectionStep(c)]_vars

\* C6 amended: a stored pair changes only in the step of a provider or model
\* selection of its chat; any other step leaves the store as it is, but for a
\* callback query that is no selection, which stores the default pair for
\* its chat when the chat has no entry.
StoredPairChangesOnlyOnSelection ==
    [][\A c \in Chats :
          EntryChanged(c) =>
              \/ SelectionStep(c)
              \/ /\ CallbackStep
                 /\ callbacks'[Len(callbacks')].chat = c
                 /\ ~HasEntry(chat_settings, c)
                 /\ chat_settings'[c] = [model_provider |-> <<"formation">>,
                                         model_id |-> <<"best-quality">>]]_vars

\* C6 witness: a stored selection has survived a callback query that is no selection.
SelectionSurvivedOtherButton ==
    \E c \in Chats :
        LET log == ChatCallbacks(c)
        IN  /\ Len(log) = 2
            /\ log[1].data = SelectOpenAI
            /\ log[2].data = OtherButton
            /\ chat_settings[c].model_provider = OpenAI

----------------------------------------------------------------------------
(* Isolation of chats *)

\* The chat whose event the step handles.
Acting(c) ==
    \/ /\ nmsg' = nmsg + 1
       /\ \E h \in Handlers : handlers'[h].msg = nmsg' /\ handlers'[h].chat = c
    \/ \E h \in Handlers :
           /\ handlers[h].pc = "await_post"
           /\ handlers'[h].pc # "await_post" \/ handlers'[h].posts # handlers[h].posts
           /\ handlers[h].chat = c
    \/ /\ CallbackStep
       /\ callbacks'[Len(callbacks')].chat = c

\* C7: a step that handles an event of one chat leaves the buffer and the
\* settings of every other chat unchanged.
OtherChatsUntouched ==
    [][\A c \in Chats :
          ~Acting(c) =>
              /\ (c \in DOMAIN chat_contexts') = (c \in DOMAIN chat_contexts)
              /\ BufferNext(c) = Buffer(c)
              /\ ~EntryChanged(c)]_vars

\* C7 witness: two chats, each with its own buffer and its own stored pair.
TwoChatsWithState ==
    /\ Buffer("c1") # <<>>
    /\ Buffer("c2") # <<>>
    /\ Buffer("c1") # Buffer("c2")
    /\ HasEntry(chat_settings, "c1")
    /\ HasEntry(chat_settings, "c2")
    /\ chat_settings["c1"] # chat_settings["c2"]

----------------------------------------------------------------------------
(* Dispatch to the backend *)

Finished(h) == handlers[h].pc = "done"

\* C8: a handler whose POST was answered with HTTP 500 has sent the chat one
\* reply, the fixed apology, and no exception has left it.
Http500GetsOneApology ==
    \A h \in Handlers :
        (/\ Finished(h)
         /\ handlers[h].outcome.kind = "response"
         /\ handlers[h].outcome.status = 500) =>
            /\ handlers[h].replies =
                   <<"Sorry, I encountered an error processing your request.">>
            /\ ~handlers[h].escaped

\* C8 witness: a handler has finished after an HTTP 500.
Http500Handled ==
    \E h \in Handlers :
        /\ Finished(h)
        /\ handlers[h].outcome.kind = "response"
        /\ handlers[h].outcome.status = 500
        /\ Len(handlers[h].replies) = 1

\* C9: no handler sends more than one POST for its message, whatever the
\* outcome of the request.
AtMostOnePost ==
    \A h \in Handlers :
        /\ handlers[h].posts <= 1
        /\ Len(SelectSeq(handlers[h].steps, LAMBDA step : step = "post")) <= 1

\* C9 witness: handlers have finished after a network failure and after a
\* non-2xx status, each with its single POST.
FailedRequestNotRetried ==
    \E h \in Handlers :
        /\ Finished(h)
        /\ handlers[h].outcome.kind = "network_error"
        /\ handlers[h].posts = 1

----------------------------------------------------------------------------
(* The backend's authentication *)

\* C10: a POST /chat whose X-API-Key is missing or is not the configured
\* secret is answered with an authentication error, and no agent is created
\* or invoked for it.
BadKeyIsRejected ==
    \A i \in DOMAIN api_log :
        api_log[i].api_key # <<"secret">> =>
            /\ api_log[i].result.status \in {401, 403}
            /\ ~api_log[i].result.agent_created
            /\ ~api_log[i].result.agent_invoked

----------------------------------------------------------------------------
(* The backend's handling of agent failures and of the bot's payload *)

Authenticated(entry) == entry.api_key = <<API_SECRET_KEY>>

\* The request is one whose agent cannot be built, or whose agent run raises.
AgentFailed(entry) ==
    /\ Authenticated(entry)
    /\ ValidChatRequest(entry.body)
    /\ \/ ~AgentCreated(provider_keys,
                        OrDefault(Field(entry.body, "modelProvider", <<>>),
                                  DEFAULT_MODEL_PROVIDER))
       \/ entry.run = "raises"

\* C11: an authenticated POST /chat whose agent cannot be created (unsupported
\* provider, missing provider key) or whose agent run raises is answered
\* normally, with the generic failure sentence as response, and never with an
\* HTTP error status.
AgentFailureIsNormalResponse ==
    \A i \in DOMAIN api_log :
        AgentFailed(api_log[i]) =>
            /\ api_log[i].result.status = 200
            /\ api_log[i].result.response = AGENT_ERROR_REPLY

\* The keys of the body that the bot's process_message sends.
IsBotPayload(body) ==
    DOMAIN body = {"chat_id", "messages", "system_prompt", "model_config"}

\* C12: the body the bot sends does not satisfy ChatRequest, and no agent is
\* created or invoked for a request with that body, which is never answered
\* with 200.
BotPayloadNeverReachesAgent ==
    \A i \in DOMAIN api_log :
        IsBotPayload(api_log[i].body) =>
            /\ ~ValidChatRequest(api_log[i].body)
            /\ api_log[i].result.status # 200
            /\ ~api_log[i].result.agent_created
            /\ ~api_log[i].result.agent_invoked

\* C12 witness: the body the bot builds was sent with the right key to a
\* backend that holds the key of the default provider, and no agent was
\* created for it.
BotPayloadRefused ==
    \E i \in DOMAIN api_log :
        /\ IsBotPayload(api_log[i].body)
        /\ api_log[i].body = BuildPayload([c \in {"c1"} |-> <<UserEntry("alice", 1)>>],
                                          <<>>, "c1")
        /\ Authenticated(api_log[i])
        /\ "formation" \in provider_keys
        /\ ~api_log[i].result.agent_created

----------------------------------------------------------------------------
(* The order of the steps of process_message *)

GotReply(h) ==
    /\ Finished(h)
    /\ handlers[h].outcome.kind = "response"
    /\ IsSuccess(handlers[h].outcome.status)
    /\ handlers[h].outcome.body.valid
    /\ handlers[h].outcome.body.has_response
    /\ handlers[h].outcome.body.response # ""

\* The request that was sent carries the user message as its last entry: the
\* message was in the buffer when the payload was built.
PayloadHoldsUserMessage(h) ==
    LET messages == handlers[h].payload[1].messages
    IN  /\ Len(messages) > 0
        /\ messages[Len(messages)].role = "user"
        /\ messages[Len(messages)].content = handlers[h].msg

\* C19: a text message with a non-empty backend reply goes through its steps
\* in this order: user message appended to the buffer, request sent, reply
\* appended to the buffer, reply sent to the chat.  While the request is in
\* flight the first two steps are done and nothing has been sent to the chat.
StepsInOrder ==
    \A h \in Handlers :
        /\ handlers[h].pc = "await_post" =>
               /\ handlers[h].steps = <<"append_user", "post">>
               /\ PayloadHoldsUserMessage(h)
               /\ handlers[h].replies = <<>>
        /\ GotReply(h) =>
               /\ handlers[h].steps = <<"append_user", "post", "append_reply", "reply">>
               /\ PayloadHoldsUserMessage(h)
               /\ handlers[h].replies = <<handlers[h].outcome.body.response>>

\* C19 witness: a message has been answered, and its chat's buffer ends with
\* the user message followed by the reply.
MessageAnswered ==
    \E h \in Handlers :
        /\ GotReply(h)
        /\ handlers[h].chat \in DOMAIN chat_contexts
        /\ LET buffer == chat_contexts[handlers[h].chat]
           IN  /\ Len(buffer) >= 2
               /\ buffer[Len(buffer) - 1].content = handlers[h].msg
               /\ buffer[Len(buffer)] = AssistantEntry(handlers[h].outcome.body.response)

----------------------------------------------------------------------------
(* Streaming *)

IsSentinel(line) == IsDataLine(line) /\ DataStr(line) = <<"[DONE]">>

IsValidChunk(line) ==
    /\ IsDataLine(line)
    /\ ~IsSentinel(line)
    /\ JsonLoads(DataStr(line)) # <<>>

IsMalformedChunk(line) ==
    /\ IsDataLine(line)
    /\ ~IsSentinel(line)
    /\ JsonLoads(DataStr(line)) = <<>>

\* The lines that come before the first sentinel.
BeforeSentinel(ls) ==
    LET at == {i \in 1..Len(ls) : IsSentinel(ls[i])}
    IN  IF at = {} THEN ls
        ELSE SubSeq(ls, 1, (CHOOSE i \in at : \A j \in at : i <= j) - 1)

\* The values of the valid chunks among the lines, in the order of the lines.
ValidChunks(ls) ==
    LET valid == SelectSeq(ls, IsValidChunk)
    IN  [i \in 1..Len(valid) |-> JsonLoads(DataStr(valid[i]))[1]]

\* C13: what has been yielded is, in arrival order, every valid chunk among
\* the lines taken so far that lie before the sentinel; a chunk that does not
\* parse is passed over, and when the loop has ended every valid chunk before
\* the sentinel has been yielded.
MalformedChunksAreSkipped ==
    /\ yielded = ValidChunks(BeforeSentinel(SubSeq(lines, 1, line_no)))
    /\ (~stream_open /\ lines # <<>>) => yielded = ValidChunks(BeforeSentinel(lines))

\* C13 witness: the stream has ended after two malformed chunks between two
\* valid ones, and both valid chunks were yielded.
TwoValidAroundMalformed ==
    /\ ~stream_open
    /\ Len(lines) = 4
    /\ IsValidChunk(lines[1])
    /\ IsMalformedChunk(lines[2])
    /\ IsMalformedChunk(lines[3])
    /\ IsValidChunk(lines[4])
    /\ yielded = <<JsonLoads(DataStr(lines[1]))[1], JsonLoads(DataStr(lines[4]))[1]>>

SentinelTaken == \E i \in 1..line_no : IsSentinel(lines[i])

\* C14: the loop stops at the sentinel: once a [DONE] line has been taken the
\* loop is over and nothing more is yielded, and taking a line that does not
\* start with data: yields nothing.
StopsAtSentinel ==
    /\ [](SentinelTaken => ~stream_open)
    /\ [][/\ SentinelTaken => yielded' = yielded
          /\ (line_no' = line_no + 1 /\ ~IsDataLine(lines[line_no'])) =>
                 yielded' = yielded
          /\ (line_no' = line_no + 1 /\ IsSentinel(lines[line_no'])) =>
                 yielded' = yielded]_vars

\* C14 witness: the loop has ended at a sentinel that is followed by a valid
\* chunk, after taking a line of another field that holds valid JSON.
StoppedBeforeLaterChunk ==
    /\ ~stream_open
    /\ line_no = 3
    /\ Len(lines) = 4
    /\ IsValidChunk(lines[1])
    /\ ~IsDataLine(lines[2])
    /\ lines[2] # <<>>
    /\ IsSentinel(lines[3])
    /\ IsValidChunk(lines[4])
    /\ Len(yielded) = 1

----------------------------------------------------------------------------
(* Tool calls *)

\* What parse_tool_calls returns: the dict each position of the list refers to.
Built(i) == entries[tool_calls[i + 1]]
BuiltNext(i) == entries'[tool_calls'[i + 1]]

IndexOf(chunk) == Field(chunk, "index", 0)
ArgumentsOf(chunk) == Field(Field(chunk, "function", EmptyDict), "arguments", <<>>)
NameOf(chunk) == Field(Field(chunk, "function", EmptyDict), "name", <<>>)

\* The positions in the input of the chunks for index i, in arrival order.
ChunksFor(i) ==
    SelectSeq([k \in 1..Len(tool_calls_data) |-> k],
              LAMBDA k : IndexOf(tool_calls_data[k]) = i)

RECURSIVE Concat(_)
Concat(texts) == IF texts = <<>> THEN <<>> ELSE Head(texts) \o Concat(Tail(texts))

AllTaken == chunk_no = Len(tool_calls_data)

\* C15: when all chunks are taken, the call built at each index that chunks
\* refer to has as arguments the fragments of the chunks for that index,
\* concatenated in arrival order, and has the id and the name of the first
\* chunk for the index when no later chunk for it carries one.
CallsAreAccumulatedPerIndex ==
    AllTaken =>
        \A i \in 0..(Len(tool_calls) - 1) :
            LET at == ChunksFor(i)
                later == {at[n] : n \in 2..Len(at)}
            IN  at # <<>> =>
                  /\ Built(i).function.arguments =
                         Concat([n \in 1..Len(at) |-> ArgumentsOf(tool_calls_data[at[n]])])
                  /\ (\A k \in later : "id" \notin DOMAIN tool_calls_data[k]) =>
                         Built(i).id = Field(tool_calls_data[at[1]], "id", <<>>)
                  /\ (\A k \in later : NameOf(tool_calls_data[k]) = <<>>) =>
                         Built(i).function.name = NameOf(tool_calls_data[at[1]])

\* The step takes a chunk for an index whose entry earlier chunks for that
\* index have established.
LaterChunkStep(i) ==
    /\ chunk_no' = chunk_no + 1
    /\ IndexOf(tool_calls_data[chunk_no']) = i
    /\ \E k \in 1..chunk_no : IndexOf(tool_calls_data[k]) = i

\* C16: a later chunk for an established index replaces the entry's id only
\* when it carries an id and the entry's type only when it carries a type: a
\* chunk without type leaves the type as it was.
IdAndTypeKeptUnlessCarried ==
    [][\A i \in 0..1 :
          LaterChunkStep(i) =>
              LET chunk == tool_calls_data[chunk_no']
              IN  /\ BuiltNext(i).id =
                         IF "id" \in DOMAIN chunk THEN chunk.id ELSE Built(i).id
                  /\ BuiltNext(i).type =
                         IF "type" \in DOMAIN chunk THEN chunk.type ELSE Built(i).type]_vars

----------------------------------------------------------------------------
(* The body of a request *)

Body == request_data[1]

\* C17: without request_params, the body holds the key of a sampling
\* parameter exactly when the parameter is set, with the value it is set to,
\* and always holds the model id and the formatted message list.
BodyHoldsExactlyTheSetParams ==
    (request_data # <<>> /\ model[1].request_params = <<>>) =>
        /\ \A key \in SAMPLING_PARAMS :
               /\ (key \in DOMAIN Body) = (model[1][key] # <<>>)
               /\ key \in DOMAIN Body => Body[key] = model[1][key][1]
        /\ "model" \in DOMAIN Body
        /\ Body["model"] = model[1].id
        /\ "messages" \in DOMAIN Body
        /\ Len(Body["messages"]) = Len(invoke_messages)
        /\ \A i \in 1..Len(invoke_messages) : Body["messages"][i].role = invoke_messages[i].role

\* C17 witness: a body was built for an instance without request_params whose
\* temperature and seed are zero, whose stop list is empty and whose top_p
\* and max_tokens are unset.
BodyBuiltWithZeroes ==
    /\ request_data # <<>>
    /\ model[1].request_params = <<>>
    /\ model[1].temperature = <<0>>
    /\ model[1].seed = <<0>>
    /\ model[1].stop = << <<>> >>
    /\ model[1].top_p = <<>>
    /\ model[1].max_tokens = <<>>
    /\ invoke_messages # <<>>
    /\ DOMAIN Body \cap SAMPLING_PARAMS =
           {"temperature", "seed", "stop"}
           \cup {key \in {"frequency_penalty", "presence_penalty"} : model[1][key] # <<>>}

----------------------------------------------------------------------------
(* The tool calls of a parsed response *)

\* The tool calls that arrived and the tool calls of the ModelResponse.
ArrivedCalls == response_arrived[1].choices[1].message.tool_calls[1]
ParsedCalls == model_response[1].tool_calls[1]

HasToolCalls ==
    /\ model_response # <<>>
    /\ "choices" \in DOMAIN response_arrived[1]
    /\ response_arrived[1].choices # <<>>
    /\ "tool_calls" \in DOMAIN response_arrived[1].choices[1].message
    /\ response_arrived[1].choices[1].message.tool_calls # <<>>

\* C18: in the parsed response the arguments of every tool call are text:
\* the JSON text of the object when they arrived as an object, the same text
\* when they arrived as text.
ArgumentsAreText ==
    HasToolCalls =>
        /\ model_response[1].tool_calls # <<>>
        /\ Len(ParsedCalls) = Len(ArrivedCalls)
        /\ \A i \in 1..Len(ArrivedCalls) :
               "function" \in DOMAIN ArrivedCalls[i] =>
                   LET arrived == ArrivedCalls[i].function.arguments
                       parsed == ParsedCalls[i].function.arguments
                   IN  /\ parsed.kind = "str"
                       /\ arrived.kind = "str" => parsed = arrived
                       /\ arrived.kind = "dict" =>
                              parsed.text \in {"{}", "{\"x\": 1}", "{\"x\": 2}"}
                       /\ (arrived.kind = "dict" /\ arrived.value = [x |-> 1]) =>
                              parsed.text = "{\"x\": 1}"

\* C18 witness: a response with one call whose arguments are an object and
\* one whose arguments are text has been parsed.
ObjectAndTextArgumentsParsed ==
    /\ HasToolCalls
    /\ Len(ArrivedCalls) = 2
    /\ \A i \in 1..2 : "function" \in DOMAIN ArrivedCalls[i]
    /\ ArrivedCalls[1].function.arguments = Object([x |-> 1])
    /\ ArrivedCalls[2].function.arguments = Text("{\"x\":1}")
    /\ ParsedCalls[1].function.arguments = Text("{\"x\": 1}")
    /\ ParsedCalls[2].function.arguments = Text("{\"x\":1}")

----------------------------------------------------------------------------
(* The calendar integration *)

ResultKeys == DOMAIN calendar_result[1]

\* C20: a call of create_calendar_event never raises: it returns either a
\* result with eventId and eventLink and no error, or a result with an error
\* alone, after at most one events().insert(); and when no service can be
\* obtained it returns the error without having called events().insert().
CalendarResultIsEventOrError ==
    [][calendar_calls' = calendar_calls + 1 =>
          LET keys == DOMAIN calendar_result'[1]
          IN  /\ ~calendar_raised'
              /\ calendar_result' # <<>>
              /\ \/ keys = {"error"}
                 \/ ({"eventId", "eventLink"} \subseteq keys /\ "error" \notin keys)
              /\ insert_calls' <= insert_calls + 1
              /\ ~GetCalendarService(calendar_env[1]).service =>
                     /\ keys = {"error"}
                     /\ insert_calls' = insert_calls]_vars

\* C20 witness: a call has returned an error after the writing of the new
\* token failed inside get_calendar_service, with no insert call.
TokenWriteFailureReturnedError ==
    /\ CalendarCalled
    /\ calendar_calls = 1
    /\ calendar_env[1].token = "absent"
    /\ calendar_env[1].credentials_file = "exists"
    /\ calendar_env[1].flow = "ok"
    /\ calendar_env[1].token_write = "raises"
    /\ calendar_result # <<>>
    /\ ResultKeys = {"error"}
    /\ insert_calls = 0

----------------------------------------------------------------------------
(* Startup *)

RequiredMissing == environ.API_SECRET_KEY = <<>> \/ environ.TELEGRAM_BOT_TOKEN = <<>>

NothingProcessed ==
    /\ nmsg = 0
    /\ ncb = 0
    /\ \A h \in Handlers : handlers[h] = NoHandler
    /\ chat_contexts = <<>>
    /\ chat_settings = <<>>
    /\ shown = <<>>

\* C21: with API_SECRET_KEY or TELEGRAM_BOT_TOKEN missing the bot never gets
\* to polling, and no message, command or callback is ever processed.
MissingConfigNeverPolls ==
    RequiredMissing => (~Polling /\ NothingProcessed)

\* C21 witness: the start was attempted with the token set and the secret
\* missing, and failed in the import of the configuration.
StartFailedOnMissingSecret ==
    /\ environ.API_SECRET_KEY = <<>>
    /\ environ.TELEGRAM_BOT_TOKEN = <<"token">>
    /\ bot_state = "import_failed"

----------------------------------------------------------------------------
(* Selections *)

\* The pair a chat's requests are sent with: the stored one, or the defaults.
EffectivePair(store, c) ==
    IF HasEntry(store, c)
    THEN [provider |-> store[c].model_provider, model_id |-> store[c].model_id]
    ELSE [provider |-> <<"formation">>, model_id |-> <<"best-quality">>]

InCatalog(pair) == pair.model_id \in ModelCatalog(pair.provider)

\* C23: a provider selection sets the chat's provider and leaves its model id
\* as it was stored (or the default), a model selection sets the model id and
\* leaves the provider; the pair that results is stored whether or not the
\* catalog lists it.
SelectionChangesOneField ==
    [][\A c \in Chats :
          SelectionStep(c) =>
              LET data == callbacks'[Len(callbacks')].data
                  selected == SubSeq(data, 3, Len(data))
                  before == EffectivePair(chat_settings, c)
                  after == EffectivePair(chat_settings', c)
              IN  /\ HasEntry(chat_settings', c)
                  /\ data[1] = "provider" =>
                         after = [provider |-> selected, model_id |-> before.model_id]
                  /\ data[1] = "model" =>
                         after = [provider |-> before.provider, model_id |-> selected]]_vars

\* C23 witness: a chat without stored pair selected the provider openai and
\* now has openai with the default model id, a pair the catalog does not list.
UnlistedPairStored ==
    \E c \in Chats :
        /\ ChatCallbacks(c) # <<>>
        /\ ChatCallbacks(c)[1].data = SelectOpenAI
        /\ Len(ChatCallbacks(c)) = 1
        /\ EffectivePair(chat_settings, c) =
               [provider |-> OpenAI, model_id |-> <<"best-quality">>]
        /\ ~InCatalog(EffectivePair(chat_settings, c))

----------------------------------------------------------------------------
(* How a model call ends *)

CallSucceeded(outcome) ==
    /\ outcome.kind = "response"
    /\ outcome.status >= 200
    /\ outcome.status <= 299
    /\ outcome.json # <<>>

\* C24: a non-streaming call returns the JSON value of the provider's
\* response when the POST is answered with a success status and a JSON body,
\* and raises ModelProviderError in every other case: error status, timeout,
\* connection failure, body that is not JSON.
InvokeReturnsOrRaisesProviderError ==
    invoke_result # <<>> =>
        LET outcome == invoke_result[1].outcome
            result == invoke_result[1].result
        IN  IF CallSucceeded(outcome)
            THEN result.kind = "returned" /\ result.value = outcome.json
            ELSE /\ result.kind = "raised"
                 /\ result.exception = "ModelProviderError"
                 /\ result.value = <<>>

\* C24 witness: a call has ended by a timeout and raised ModelProviderError.
TimeoutRaisedProviderError ==
    /\ invoke_result # <<>>
    /\ invoke_result[1].outcome.kind = "timeout"
    /\ invoke_result[1].result.kind = "raised"
    /\ invoke_result[1].result.cause = "TimeoutException"

----------------------------------------------------------------------------
(* The payload of a request *)

\* The handler in slot h sends its request in this step.
Sends(h) ==
    /\ handlers'[h].pc = "await_post"
    /\ handlers'[h] # handlers[h]

\* C25: with messages handled one at a time, the payload of every request
\* holds at most MAX_CONTEXT_LENGTH messages, which are the chat's buffer at
\* the send; its last message is the user message that started the handler;
\* its provider/model pair is the chat's effective settings at the send.
PayloadIsBoundedAndCurrent ==
    [][\A h \in Handlers :
          Sends(h) =>
              LET sent == handlers'[h].payload[1]
                  c == handlers'[h].chat
                  n == Len(sent.messages)
              IN  /\ n <= MAX_CONTEXT_LENGTH
                  /\ n > 0
                  /\ sent.messages[n].role = "user"
                  /\ sent.messages[n].content = nmsg'
                  /\ sent.messages = chat_contexts'[c]
                  /\ sent.chat_id = c
                  /\ sent.model_config = EffectivePair(chat_settings, c)]_vars

\* C25 witness: a request in flight carries MAX_CONTEXT_LENGTH messages, the
\* oldest message of the chat having been evicted to make room for the user
\* message at its end.
FullPayloadAfterEviction ==
    \E h \in Handlers :
        /\ handlers[h].pc = "await_post"
        /\ Len(handlers[h].payload[1].messages) = MAX_CONTEXT_LENGTH
        /\ Len(appended[handlers[h].chat]) > MAX_CONTEXT_LENGTH
        /\ PayloadHoldsUserMessage(h)

----------------------------------------------------------------------------
(* A request that fails, a response that is empty *)

\* The request of the handler in slot h comes back in this step.
Returns(h) ==
    /\ handlers[h].pc = "await_post"
    /\ handlers'[h].pc = "done"

\* What came back is a failure: no connection, a status outside 2xx, or a 2xx
\* body that response.json() cannot read.
IsFailure(outcome) ==
    \/ outcome.kind = "network_error"
    \/ ~IsSuccess(outcome.status)
    \/ ~outcome.body.valid

\* What came back is a 2xx JSON body whose "response" is missing or empty.
IsEmptyResponse(outcome) ==
    /\ outcome.kind = "response"
    /\ IsSuccess(outcome.status)
    /\ outcome.body.valid
    /\ (~outcome.body.has_response \/ outcome.body.response = "")

\* C26: when the request fails, the handler's step leaves every buffer as it
\* is: the chat's buffer is still the list of messages that was sent, with
\* the user message as its last entry, and no assistant entry is appended.
FailureKeepsUserMessage ==
    [][\A h \in Handlers :
          (Returns(h) /\ IsFailure(handlers'[h].outcome)) =>
              LET c == handlers[h].chat
                  buffer == chat_contexts'[c]
              IN  /\ chat_contexts' = chat_contexts
                  /\ appended' = appended
                  /\ buffer = handlers[h].payload[1].messages
                  /\ buffer[Len(buffer)].role = "user"
                  /\ buffer[Len(buffer)].content = handlers[h].msg]_vars

\* C26 witness: a request was answered with status 500; the handler has sent
\* its apology and the user message is the last entry of the buffer.
FailedWithUserMessageKept ==
    \E h \in Handlers :
        /\ handlers[h].pc = "done"
        /\ handlers[h].outcome.kind = "response"
        /\ handlers[h].outcome.status = 500
        /\ handlers[h].replies = <<HTTP_ERROR_REPLY>>
        /\ chat_contexts[handlers[h].chat] = handlers[h].payload[1].messages

\* C29: when the backend answers 2xx with a JSON body whose "response" is
\* missing or empty, the handler ends without an exception, having sent
\* nothing to the chat and appended nothing to any buffer.
EmptyResponseIsSilent ==
    [][\A h \in Handlers :
          (Returns(h) /\ IsEmptyResponse(handlers'[h].outcome)) =>
              /\ handlers'[h].replies = <<>>
              /\ ~handlers'[h].escaped
              /\ handlers'[h].steps = handlers[h].steps
              /\ chat_contexts' = chat_contexts
              /\ appended' = appended]_vars

\* C29 witness: a handler has ended on a 2xx body without a "response" field
\* and has sent nothing.
EndedOnMissingResponse ==
    \E h \in Handlers :
        /\ handlers[h].pc = "done"
        /\ IsEmptyResponse(handlers[h].outcome)
        /\ ~handlers[h].outcome.body.has_response
        /\ handlers[h].replies = <<>>
        /\ ~handlers[h].escaped

----------------------------------------------------------------------------
(* Tool calls at distinct indices *)

\* The entry the list holds for index j: an empty dict while the list is
\* shorter than j + 1.
EntryAt(list, objects, j) ==
    IF j < Len(list) THEN objects[list[j + 1]] ELSE EmptyDict

\* C27: a chunk for index i leaves the entry of every other index as it is,
\* also when the first index seen is above 0 or indices are skipped.
ChunkChangesOnlyItsIndex ==
    [][chunk_no' = chunk_no + 1 =>
          LET i == IndexOf(tool_calls_data[chunk_no'])
          IN  \A j \in 0..(Len(tool_calls') - 1) :
                  j # i => EntryAt(tool_calls', entries', j)
                               = EntryAt(tool_calls, entries, j)]_vars

====
